---- MODULE Spec2Model ----
(***************************************************************************)
(* Model of the fastText-derived vocabulary dictionary of readable_w2v.    *)
(* Two variants of class Dictionary are modelled side by side:             *)
(*   - the words-only dictionary   (src/src/dictionary.cc, header          *)
(*     src/unnamed/part_001), variant = "words";                           *)
(*   - the label-aware dictionary  (src/unnamed/part_000),                 *)
(*     variant = "labels".                                                 *)
(* Strings are sequences of byte values, streams are byte sequences with a *)
(* read position and an eof bit, the entry store words_ is a sequence of   *)
(* records and the hash index word2int_ is a function on slot numbers.     *)
(***************************************************************************)
EXTENDS Integers, Sequences, FiniteSets, TLC

(***************************************************************************)
(* Bounds of the model.                                                    *)
(***************************************************************************)
\* Capacity of the hash index.  The program uses 30000000
\* (src/unnamed/part_001:33); the model scales it down so that probe
\* collisions and wrap-around happen among a handful of words.
MAX_VOCAB_SIZE == 6
\* Largest number of add() calls made through the direct interface.
MaxTokens == 3
\* Largest cutoff passed to threshold().
MaxThreshold == 2
\* Longest id list passed to prune().
MaxPruneLen == 2
\* Maximum line length of getLine.  The program uses 1024
\* (src/unnamed/part_001:34); the model scales it down to the length of its
\* corpus lines.
MAX_LINE_SIZE == 3

(***************************************************************************)
(* Strings.                                                                *)
(***************************************************************************)
\* const std::string Dictionary::EOS = "</s>"
EOS == <<60, 47, 115, 62>>
\* the words "a", "b", "c" and the label "_x" used as inputs
WordA == <<97>>
WordB == <<98>>
WordC == <<99>>
WordD == <<100>>
LabelX == <<95, 120>>
\* args_->label, the label marker (configuration, here "_")
args_label == <<95>>

\* entry_type { word = 0, label = 1 }
TypeWord == 0
TypeLabel == 1

IsPrefix(p, w) == /\ Len(p) <= Len(w)
                  /\ \A i \in 1..Len(p) : w[i] = p[i]

(***************************************************************************)
(* Dictionary::hash: 32-bit FNV-1a.  TLC integers are 32-bit signed, so    *)
(* the uint32_t value is kept as two 16-bit limbs <<hi, lo>>.              *)
(***************************************************************************)
RECURSIVE Xor(_, _)
Xor(x, y) == IF x = 0 THEN y
             ELSE IF y = 0 THEN x
             ELSE (((x % 2) + (y % 2)) % 2) + 2 * Xor(x \div 2, y \div 2)

\* uint32_t(str[i]) for a (signed) char holding byte value c: bytes above
\* 127 are sign-extended to 0xFFFFFFxx.
CharToU32(c) == IF c < 128 THEN <<0, c>> ELSE <<65535, 65280 + c>>

\* h = h ^ uint32_t(c); h = h * 16777619   (modulo 2^32)
\* 16777619 = 2^24 + 403
HashStep(h, c) ==
    LET x  == <<Xor(h[1], CharToU32(c)[1]), Xor(h[2], CharToU32(c)[2])>>
        lo == x[2] * 403
        hi == (x[1] * 403) + (lo \div 65536) + ((x[2] % 256) * 256)
    IN  <<hi % 65536, lo % 65536>>

RECURSIVE HashFrom(_, _, _)
HashFrom(h, str, i) ==
    IF i > Len(str) THEN h
    ELSE \* the quantified n holds the value of h after this character
         CHOOSE r \in {HashFrom(n, str, i + 1) : n \in {HashStep(h, str[i])}} :
             TRUE

\* uint32_t h = 2166136261 = 0x811C9DC5
hash(str) == HashFrom(<<33052, 40389>>, str, 1)

\* h % MAX_VOCAB_SIZE for h = hi * 65536 + lo
HashSlot(h) == ((h[1] % MAX_VOCAB_SIZE) * (65536 % MAX_VOCAB_SIZE) + h[2])
                   % MAX_VOCAB_SIZE

Slots == 0..(MAX_VOCAB_SIZE - 1)
EmptyIndex == [s \in Slots |-> -1]

(***************************************************************************)
(* Dictionary::find.  The result is the slot the probe stops at, or one of *)
(* two faults the loop can run into:                                       *)
(*   HANG: every slot is occupied by another word, the loop never ends;    *)
(*   OOB : a slot holds an id that is no index of words_ (the read         *)
(*         words_[word2int_[id]] is outside the vector).                   *)
(***************************************************************************)
HANG == -1
OOB == -2

RECURSIVE Probe(_, _, _, _, _)
Probe(w2i, ws, w, id, n) ==
    IF n = MAX_VOCAB_SIZE THEN HANG
    ELSE IF w2i[id] = -1 THEN id
    ELSE IF w2i[id] < 0 \/ w2i[id] >= Len(ws) THEN OOB
    ELSE IF ws[w2i[id] + 1].word = w THEN id
    ELSE Probe(w2i, ws, w, (id + 1) % MAX_VOCAB_SIZE, n + 1)

findH(w2i, ws, w, h) == Probe(w2i, ws, w, HashSlot(h), 0)

find(w2i, ws, w) == findH(w2i, ws, w, hash(w))

(***************************************************************************)
(* The state.                                                              *)
(***************************************************************************)
VARIABLES
    variant,         \* "words": src/src/dictionary.cc; "labels": part_000
    words_,          \* std::vector<entry>: sequence of [word, count, type]
    word2int_,       \* std::vector<int32_t>(MAX_VOCAB_SIZE): slot -> id or -1
    size_,           \* label-aware variant only (0 in the words-only one)
    nwords_,
    nlabels_,        \* label-aware variant only (0 in the words-only one)
    ntokens_,
    pruneidx_size_,
    pruneidx_,       \* std::unordered_map<int32_t,int32_t> as a set of pairs
    pdiscard_,       \* std::vector<real>, see InitTableDiscard
    args,            \* the options record: minCount, minCountLabel, model
    in,              \* the corpus stream: [buf, pos, eof]
    file,            \* the bytes written by the last save()
    pc,              \* "api", "reading", "built"
    fault,           \* "none", or how the process left defined behaviour
    op,              \* the last operation: [name, arg, out]
    nadds,           \* number of add() calls made so far
    calls,           \* parity of the number of getLine calls made so far
    readers,         \* the concurrent readers: reader -> its own state
    minThreshold     \* the local of readFromFile

dvars == <<words_, word2int_, size_, nwords_, nlabels_, ntokens_,
           pruneidx_size_, pruneidx_, pdiscard_>>
vars == <<variant, dvars, args, in, file, pc, fault, op, nadds, calls,
          readers, minThreshold>>

\* The dictionary object as one value.
Dict == [words_ |-> words_, word2int_ |-> word2int_, size_ |-> size_,
         nwords_ |-> nwords_, nlabels_ |-> nlabels_, ntokens_ |-> ntokens_,
         pruneidx_size_ |-> pruneidx_size_, pruneidx_ |-> pruneidx_,
         pdiscard_ |-> pdiscard_]

\* The dictionary object becomes d.
SetDict(d) == /\ words_' = d.words_
              /\ word2int_' = d.word2int_
              /\ size_' = d.size_
              /\ nwords_' = d.nwords_
              /\ nlabels_' = d.nlabels_
              /\ ntokens_' = d.ntokens_
              /\ pruneidx_size_' = d.pruneidx_size_
              /\ pruneidx_' = d.pruneidx_
              /\ pdiscard_' = d.pdiscard_

\* Values an int32_t member that no constructor initialises may hold.
UninitInt32 == {-1, 0, 1}

\* Dictionary::Dictionary.  The label-aware constructor does not initialise
\* size_.
Fresh(v, sz) ==
    [words_ |-> <<>>, word2int_ |-> EmptyIndex,
     size_ |-> IF v = "labels" THEN sz ELSE 0,
     nwords_ |-> 0, nlabels_ |-> 0, ntokens_ |-> 0,
     pruneidx_size_ |-> -1, pruneidx_ |-> {}, pdiscard_ |-> <<>>]

\* The number of entries the variant takes the store to hold.
Size(v, d) == IF v = "labels" THEN d.size_ ELSE d.nwords_

(***************************************************************************)
(* Dictionary::getType(const std::string&), getId, getWord.                *)
(***************************************************************************)
getTypeOf(w) == IF IsPrefix(args_label, w) THEN TypeLabel ELSE TypeWord

EntryType(v, w) == IF v = "labels" THEN getTypeOf(w) ELSE TypeWord

\* getId: word2int_[find(w)]; HANG and OOB are passed on.
getId(d, w) ==
    LET h == find(d.word2int_, d.words_, w)
    IN  IF h < 0 THEN h - 1 ELSE d.word2int_[h]

\* getWord: words_[id].word, <<"?">> when id is no index of words_.
getWord(d, id) ==
    IF id >= 0 /\ id < Len(d.words_) THEN d.words_[id + 1].word ELSE <<"?">>

(***************************************************************************)
(* Dictionary::add.                                                        *)
(***************************************************************************)
\* add with ntokens_++ moved into the branch that creates an entry: a token
\* whose word is known is not counted.
AddOp_CountsNewWordsOnly(v, d, w) ==
    LET h == find(d.word2int_, d.words_, w)
    IN  IF h = HANG THEN [d |-> d, fault |-> "hang"]
        ELSE IF h = OOB THEN [d |-> d, fault |-> "ub"]
        ELSE IF d.word2int_[h] = -1
        THEN [d |-> [d EXCEPT
                  !.ntokens_ = @ + 1,
                  !.words_ = Append(@, [word |-> w, count |-> 1,
                                        type |-> EntryType(v, w)]),
                  !.word2int_ = [@ EXCEPT ![h] = Size(v, d)],
                  !.size_ = IF v = "labels" THEN @ + 1 ELSE @,
                  !.nwords_ = IF v = "words" THEN @ + 1 ELSE @],
              fault |-> "none"]
        ELSE [d |-> [d EXCEPT
                  !.words_ = [@ EXCEPT ![d.word2int_[h] + 1].count = @ + 1]],
              fault |-> "none"]

AddOp(v, d, w) ==
    LET h == find(d.word2int_, d.words_, w)
    IN  IF h = HANG THEN [d |-> d, fault |-> "hang"]
        ELSE IF h = OOB THEN [d |-> d, fault |-> "ub"]
        ELSE IF d.word2int_[h] = -1
        THEN [d |-> [d EXCEPT
                  !.ntokens_ = @ + 1,
                  !.words_ = Append(@, [word |-> w, count |-> 1,
                                        type |-> EntryType(v, w)]),
                  !.word2int_ = [@ EXCEPT ![h] = Size(v, d)],
                  !.size_ = IF v = "labels" THEN @ + 1 ELSE @,
                  !.nwords_ = IF v = "words" THEN @ + 1 ELSE @],
              fault |-> "none"]
        ELSE [d |-> [d EXCEPT
                  !.ntokens_ = @ + 1,
                  !.words_ = [@ EXCEPT ![d.word2int_[h] + 1].count = @ + 1]],
              fault |-> "none"]

(***************************************************************************)
(* Dictionary::threshold.                                                  *)
(***************************************************************************)
\* Before with the counts compared the other way round (ascending).
Before_Ascending(v, e1, e2) ==
    IF v = "labels" /\ e1.type # e2.type THEN e1.type < e2.type
    ELSE e1.count < e2.count

\* The comparator handed to std::sort: "e1 goes before e2".
Before(v, e1, e2) ==
    IF v = "labels" /\ e1.type # e2.type THEN e1.type < e2.type
    ELSE e1.count > e2.count

\* std::sort is not stable: every arrangement of ws in which no entry that
\* goes before another stands after it is a possible result.
RECURSIVE SortedFrom(_, _, _)
SortedFrom(v, ws, idx) ==
    IF idx = {} THEN {<<>>}
    ELSE UNION {{<<ws[i]>> \o rest : rest \in SortedFrom(v, ws, idx \ {i})} :
                i \in {k \in idx : \A j \in idx : ~Before(v, ws[j], ws[k])}}

Sorted(v, ws) == SortedFrom(v, ws, 1..Len(ws))

\* BelowCutoff with the comparison made inclusive: an entry whose count
\* equals the cutoff is dropped too.
BelowCutoff_Inclusive(v, e, t, tl) ==
    IF v = "labels"
    THEN \/ (e.type = TypeWord /\ e.count <= t)
         \/ (e.type = TypeLabel /\ e.count <= tl)
    ELSE e.count <= t

\* The predicate of remove_if: the entry is dropped.
BelowCutoff(v, e, t, tl) ==
    IF v = "labels"
    THEN \/ (e.type = TypeWord /\ e.count < t)
         \/ (e.type = TypeLabel /\ e.count < tl)
    ELSE e.count < t

\* words_.erase(remove_if(...), words_.end()): the others keep their order.
RemoveBelow(v, ws, t, tl) == SelectSeq(ws, LAMBDA e : ~BelowCutoff(v, e, t, tl))

\* The loop that refills the hash index from the store: entry number i
\* (from 0) is written to the slot find gives for its word.  The result is
\* [ok, w2i]; ok is FALSE when find never returns.
RECURSIVE RebuildFrom(_, _, _)
RebuildFrom(ws, w2i, i) ==
    IF i >= Len(ws) THEN [ok |-> TRUE, w2i |-> w2i]
    ELSE LET h == find(w2i, ws, ws[i + 1].word)
         IN  IF h < 0 THEN [ok |-> FALSE, w2i |-> w2i]
             ELSE RebuildFrom(ws, [w2i EXCEPT ![h] = i], i + 1)

CountType(ws, ty) == Cardinality({i \in 1..Len(ws) : ws[i].type = ty})

\* threshold(t) / threshold(t, tl) once std::sort has produced `sorted`.
ThresholdOp(v, d, sorted, t, tl) ==
    LET ws  == RemoveBelow(v, sorted, t, tl)
        r   == RebuildFrom(ws, EmptyIndex, 0)
    IN  IF ~r.ok THEN [d |-> d, fault |-> "hang"]
        ELSE [d |-> [d EXCEPT
                  !.words_ = ws,
                  !.word2int_ = r.w2i,
                  !.size_ = IF v = "labels" THEN Len(ws) ELSE @,
                  !.nwords_ = IF v = "labels" THEN CountType(ws, TypeWord)
                              ELSE Len(ws),
                  !.nlabels_ = IF v = "labels" THEN CountType(ws, TypeLabel)
                               ELSE @],
              fault |-> "none"]

(***************************************************************************)
(* Dictionary::initTableDiscard.  pdiscard_[i] = sqrt(t/f) + t/f with      *)
(* f = count / ntokens_ is a real; the model keeps the two integers it is  *)
(* computed from, <<count, ntokens_>>.                                     *)
(***************************************************************************)
InitTableDiscardOp(v, d) ==
    LET n == Size(v, d)
    IN  IF n < 0 THEN [d |-> d, fault |-> "throw"]   \* resize(size_t(n))
        ELSE IF n > Len(d.words_) THEN [d |-> d, fault |-> "ub"]
        ELSE [d |-> [d EXCEPT !.pdiscard_ =
                        [i \in 1..n |-> <<d.words_[i].count, d.ntokens_>>]],
              fault |-> "none"]

(***************************************************************************)
(* Dictionary::prune.                                                      *)
(***************************************************************************)
\* std::sort on a vector of int32_t.
RECURSIVE SortInts(_)
SortInts(xs) ==
    IF xs = <<>> THEN <<>>
    ELSE LET m == CHOOSE i \in 1..Len(xs) : \A j \in 1..Len(xs) : xs[i] <= xs[j]
         IN  <<xs[m]>> \o SortInts(SubSeq(xs, 1, m - 1) \o
                                   SubSeq(xs, m + 1, Len(xs)))

\* the ids of idx below nwords_, sorted
PruneWords(d, idx) == SortInts(SelectSeq(idx, LAMBDA x : x < d.nwords_))

\* The condition under which prune keeps the entry at position i (from 0).
PruneKeeps(v, ws, words, i, j) ==
    \/ (v = "labels" /\ ws[i + 1].type = TypeLabel)
    \/ (j < Len(words) /\ words[j + 1] = i)

\* The compaction loop, from position i with write cursor j.  The result is
\* [ok, ws, w2i, j]; ok is FALSE when find never returns.
RECURSIVE PruneLoop(_, _, _, _, _, _)
PruneLoop(v, ws, w2i, words, i, j) ==
    IF i >= Len(ws) THEN [ok |-> TRUE, ws |-> ws, w2i |-> w2i, j |-> j]
    ELSE IF PruneKeeps(v, ws, words, i, j)
    THEN LET ws2 == [ws EXCEPT ![j + 1] = ws[i + 1]]
             h   == find(w2i, ws2, ws2[j + 1].word)
         IN  IF h < 0 THEN [ok |-> FALSE, ws |-> ws, w2i |-> w2i, j |-> j]
             ELSE PruneLoop(v, ws2, [w2i EXCEPT ![h] = j], words, i + 1, j + 1)
    ELSE PruneLoop(v, ws, w2i, words, i + 1, j)

\* getType(i) in the loop of the label-aware prune asserts i < size_.
PruneAsserts(v, d) == v = "labels" => Len(d.words_) <= d.size_

PruneOp(v, d, idx) ==
    LET words == PruneWords(d, idx)
        r     == PruneLoop(v, d.words_, EmptyIndex, words, 0, 0)
    IN  IF ~r.ok THEN [d |-> d, fault |-> "hang"]
        ELSE [d |-> [d EXCEPT
                  !.pruneidx_size_ = Cardinality(d.pruneidx_),
                  !.words_ = r.ws,
                  !.word2int_ = r.w2i,
                  !.nwords_ = Len(words),
                  !.size_ = IF v = "labels" THEN Len(words) + d.nlabels_
                            ELSE @],
              fault |-> "none"]

(***************************************************************************)
(* Dictionary::save and Dictionary::load.  The file is a byte sequence;    *)
(* integers are written in their native width, little-endian, two's        *)
(* complement.                                                             *)
(***************************************************************************)
\* out.write((char*) &x, n): the n bytes of x
RECURSIVE EncodeInt(_, _)
EncodeInt(x, n) == IF n = 0 THEN <<>>
                   ELSE <<x % 256>> \o EncodeInt(x \div 256, n - 1)

\* in.read((char*) &x, n): the value of the n bytes bs
RECURSIVE DecodeInt(_)
DecodeInt(bs) ==
    IF Len(bs) = 1 THEN (IF bs[1] < 128 THEN bs[1] ELSE bs[1] - 256)
    ELSE bs[1] + 256 * DecodeInt(Tail(bs))

\* EncodeEntry with the type byte written as 0 whatever the entry's type.
EncodeEntry_TypeZero(v, e) ==
    e.word \o <<0>> \o EncodeInt(e.count, 8) \o
    (IF v = "labels" THEN EncodeInt(0, 1) ELSE <<>>)

\* one entry: the word, a NUL, the count, and (label-aware) the type byte
EncodeEntry(v, e) ==
    e.word \o <<0>> \o EncodeInt(e.count, 8) \o
    (IF v = "labels" THEN EncodeInt(e.type, 1) ELSE <<>>)

RECURSIVE EncodeEntries(_, _, _, _)
EncodeEntries(v, ws, i, n) ==
    IF i >= n THEN <<>>
    ELSE EncodeEntry(v, ws[i + 1]) \o EncodeEntries(v, ws, i + 1, n)

\* the pairs of pruneidx_, in the map's iteration order
RECURSIVE EncodePairs(_)
EncodePairs(ps) ==
    IF ps = {} THEN <<>>
    ELSE LET q == CHOOSE x \in ps : TRUE
         IN  EncodeInt(q[1], 4) \o EncodeInt(q[2], 4) \o EncodePairs(ps \ {q})

EncodeHeader(v, d) ==
    (IF v = "labels"
     THEN EncodeInt(d.size_, 4) \o EncodeInt(d.nwords_, 4) \o
          EncodeInt(d.nlabels_, 4)
     ELSE EncodeInt(d.nwords_, 4)) \o
    EncodeInt(d.ntokens_, 8) \o EncodeInt(d.pruneidx_size_, 8)

\* save: [bytes, fault]; reading words_[i] for i >= words_.size() is
\* undefined.
SaveOp(v, d) ==
    IF Size(v, d) > Len(d.words_) THEN [bytes |-> <<>>, fault |-> "ub"]
    ELSE [bytes |-> EncodeHeader(v, d) \o
                    EncodeEntries(v, d.words_, 0, Size(v, d)) \o
                    EncodePairs(d.pruneidx_),
          fault |-> "none"]

\* The position of the first NUL at or after pos (from 0), Len(bs) if none.
RECURSIVE FindNul(_, _)
FindNul(bs, pos) == IF pos >= Len(bs) \/ bs[pos + 1] = 0 THEN pos
                    ELSE FindNul(bs, pos + 1)

Bytes(bs, pos, n) == SubSeq(bs, pos + 1, pos + n)

\* The loop of load that reads the entries: [ok, ws, w2i, pos].
RECURSIVE LoadEntries(_, _, _, _, _, _, _)
LoadEntries(v, bs, pos, n, i, ws, w2i) ==
    IF i >= n THEN [ok |-> TRUE, ws |-> ws, w2i |-> w2i, pos |-> pos]
    ELSE LET z    == FindNul(bs, pos)
             tlen == IF v = "labels" THEN 1 ELSE 0
             e    == [word |-> Bytes(bs, pos, z - pos),
                      count |-> DecodeInt(Bytes(bs, z + 1, 8)),
                      type |-> IF v = "labels"
                               THEN DecodeInt(Bytes(bs, z + 9, 1))
                               ELSE TypeWord]
             ws2  == Append(ws, e)
             h    == find(w2i, ws2, e.word)
         IN  IF z + 9 + tlen > Len(bs) \/ h < 0
             THEN [ok |-> FALSE, ws |-> ws, w2i |-> w2i, pos |-> pos]
             ELSE LoadEntries(v, bs, z + 9 + tlen, n, i + 1, ws2,
                              [w2i EXCEPT ![h] = i])

\* The loop of load that reads the prune map: pruneidx_[first] = second.
RECURSIVE LoadPairs(_, _, _, _, _)
LoadPairs(bs, pos, n, i, ps) ==
    IF i >= n THEN ps
    ELSE LET first  == DecodeInt(Bytes(bs, pos, 4))
             second == DecodeInt(Bytes(bs, pos + 4, 4))
         IN  LoadPairs(bs, pos + 8, n, i + 1,
                       {q \in ps : q[1] # first} \cup {<<first, second>>})

HeaderLen(v) == IF v = "labels" THEN 28 ELSE 20

\* load, up to the call of initTableDiscard: [d, fault].  A file that ends
\* early leaves the source's behaviour undefined.
LoadFields(v, d, bs) ==
    LET base == IF v = "labels" THEN 12 ELSE 4
        sz   == DecodeInt(Bytes(bs, 0, 4))
        nw   == IF v = "labels" THEN DecodeInt(Bytes(bs, 4, 4)) ELSE sz
        nl   == IF v = "labels" THEN DecodeInt(Bytes(bs, 8, 4)) ELSE d.nlabels_
        nt   == DecodeInt(Bytes(bs, base, 8))
        ps   == DecodeInt(Bytes(bs, base + 8, 8))
        r    == LoadEntries(v, bs, HeaderLen(v), sz, 0, <<>>, EmptyIndex)
    IN  IF Len(bs) < HeaderLen(v) \/ ~r.ok
           \/ (ps > 0 /\ r.pos + 8 * ps > Len(bs))
        THEN [d |-> d, fault |-> "ub"]
        ELSE [d |-> [words_ |-> r.ws, word2int_ |-> r.w2i,
                     size_ |-> IF v = "labels" THEN sz ELSE d.size_,
                     nwords_ |-> nw, nlabels_ |-> nl, ntokens_ |-> nt,
                     pruneidx_size_ |-> ps,
                     pruneidx_ |-> LoadPairs(bs, r.pos, ps, 0, {}),
                     pdiscard_ |-> d.pdiscard_],
              fault |-> "none"]

LoadOp(v, d, bs) ==
    LET r == LoadFields(v, d, bs)
    IN  IF r.fault # "none" THEN r ELSE InitTableDiscardOp(v, r.d)

(***************************************************************************)
(* Dictionary::readWord and Dictionary::reset.  A stream is [buf, pos,     *)
(* eof]: its bytes, the offset of the next byte to read and its eofbit.    *)
(***************************************************************************)
\* ' ', '\n', '\r', '\t', '\v', '\f', '\0'
Separators == {32, 10, 13, 9, 11, 12, 0}
NewLine == 10

\* in.get() after the loop: with the stream at its end it sets eofbit (and
\* failbit); otherwise, the stream being good, it extracts one byte.
AfterLoopGet(buf, pos, eof) ==
    IF eof THEN [pos |-> pos, eof |-> eof]
    ELSE IF pos >= Len(buf) THEN [pos |-> pos, eof |-> TRUE]
    ELSE [pos |-> pos + 1, eof |-> eof]

\* The loop of readWord from offset pos with `word` accumulated so far:
\* [ok, word, pos, eof].  c is a (signed) char, so that the byte 255 compares
\* equal to EOF and ends the loop like the end of the stream does.
RECURSIVE ReadWordFrom(_, _, _, _)
ReadWordFrom(buf, pos, eof, word) ==
    IF pos >= Len(buf) \/ buf[pos + 1] = 255
    THEN LET p == IF pos >= Len(buf) THEN pos ELSE pos + 1
             g == AfterLoopGet(buf, p, eof)
         IN  [ok |-> word # <<>>, word |-> word, pos |-> g.pos, eof |-> g.eof]
    ELSE LET c == buf[pos + 1]
         IN  IF c \in Separators
             THEN IF word = <<>>
                  THEN IF c = NewLine
                       THEN [ok |-> TRUE, word |-> EOS, pos |-> pos + 1,
                             eof |-> eof]
                       ELSE ReadWordFrom(buf, pos + 1, eof, word)
                  ELSE [ok |-> TRUE, word |-> word,
                        pos |-> IF c = NewLine THEN pos ELSE pos + 1,
                        eof |-> eof]
             ELSE ReadWordFrom(buf, pos + 1, eof, Append(word, c))

\* readWord(in, word): [ok, word, in], in being the stream afterwards.
readWord(s) ==
    LET r == ReadWordFrom(s.buf, s.pos, s.eof, <<>>)
    IN  [ok |-> r.ok, word |-> r.word,
         in |-> [buf |-> s.buf, pos |-> r.pos, eof |-> r.eof]]

\* reset that clears the error state without seeking.
reset_NoSeek(s) ==
    IF s.eof THEN [buf |-> s.buf, pos |-> s.pos, eof |-> FALSE] ELSE s

\* reset(in): if (in.eof()) { in.clear(); in.seekg(0); }
reset(s) == IF s.eof THEN [buf |-> s.buf, pos |-> 0, eof |-> FALSE] ELSE s

(***************************************************************************)
(* Inputs of the direct interface.                                         *)
(***************************************************************************)
\* words handed to add()
AddWords(v) == IF v = "labels" THEN {WordA, WordB, LabelX}
               ELSE {WordA, WordB, WordC}

\* id lists handed to prune()
RECURSIVE SeqsUpTo(_, _)
SeqsUpTo(S, n) ==
    IF n = 0 THEN {<<>>}
    ELSE LET shorter == SeqsUpTo(S, n - 1)
         IN  shorter \cup {Append(q, x) : q \in shorter, x \in S}

\* ids below, inside and above the range of word ids
PruneIds == {-1, 0, 1, 2}
PruneInputs == SeqsUpTo(PruneIds, MaxPruneLen)
\* the lists among them that hold distinct ids, none negative
DistinctIdLists ==
    {q \in PruneInputs : /\ \A k \in 1..Len(q) : q[k] >= 0
                         /\ \A k, l \in 1..Len(q) : k # l => q[k] # q[l]}

\* no reader thread has been started
NoReaders == <<>>
NoStream == [buf |-> <<>>, pos |-> 0, eof |-> FALSE]
NoArgs == [minCount |-> 1, minCountLabel |-> 0, model |-> "sg"]

(***************************************************************************)
(* Initial states: a freshly constructed dictionary used through add,      *)
(* threshold, prune, save and load.                                        *)
(***************************************************************************)
InitApi(v) ==
    /\ variant = v
    /\ \E sz \in UninitInt32 :
          /\ (v = "words" => sz = 0)
          /\ words_ = Fresh(v, sz).words_
          /\ word2int_ = Fresh(v, sz).word2int_
          /\ size_ = Fresh(v, sz).size_
          /\ nwords_ = Fresh(v, sz).nwords_
          /\ nlabels_ = Fresh(v, sz).nlabels_
          /\ ntokens_ = Fresh(v, sz).ntokens_
          /\ pruneidx_size_ = Fresh(v, sz).pruneidx_size_
          /\ pruneidx_ = Fresh(v, sz).pruneidx_
          /\ pdiscard_ = Fresh(v, sz).pdiscard_
    /\ args = NoArgs
    /\ in = NoStream
    /\ file = <<>>
    /\ pc = "api"
    /\ fault = "none"
    /\ op = [name |-> "new", arg |-> <<>>, out |-> <<>>]
    /\ nadds = 0
    /\ calls = 0
    /\ readers = NoReaders
    /\ minThreshold = 1

\* The operation ended with result r = [d, fault]: the dictionary becomes
\* r.d, or the process leaves defined behaviour.
Apply(r) == /\ fault' = r.fault
            /\ IF r.fault = "none" THEN SetDict(r.d) ELSE UNCHANGED dvars

\* No operation is started once the process has left defined behaviour, and
\* a saved file is loaded before anything else is done.
Ready == fault = "none" /\ file = <<>>

(***************************************************************************)
(* The operations of the direct interface.                                 *)
(***************************************************************************)
Add(v) ==
    /\ Ready /\ variant = v /\ pc = "api"
    /\ nadds < MaxTokens
    /\ \E w \in AddWords(v) :
          /\ Apply(AddOp(v, Dict, w))
          /\ op' = [name |-> "add", arg |-> w, out |-> <<>>]
    /\ nadds' = nadds + 1
    /\ UNCHANGED <<variant, readers, calls, args, in, file, pc, minThreshold>>

Threshold(v) ==
    /\ Ready /\ variant = v /\ pc = "api"
    /\ \E t \in 0..MaxThreshold, tl \in 0..MaxThreshold :
          /\ (v = "words" => tl = 0)
          /\ \E sorted \in Sorted(v, words_) :
                Apply(ThresholdOp(v, Dict, sorted, t, tl))
          /\ op' = [name |-> "threshold", arg |-> <<t, tl>>, out |-> <<>>]
    /\ UNCHANGED <<variant, readers, calls, args, in, file, pc, nadds,
                   minThreshold>>

\* With assertions compiled in, the label-aware prune aborts when the store
\* is longer than size_; without them it goes on.
PruneWith(v, inputs) ==
    /\ Ready /\ variant = v /\ pc \in {"api", "built"}
    /\ \E idx \in inputs :
          /\ \/ Apply(PruneOp(v, Dict, idx))
             \/ /\ ~PruneAsserts(v, Dict)
                /\ Apply([d |-> Dict, fault |-> "assert"])
          /\ op' = [name |-> "prune", arg |-> <<>>, out |-> <<>>]
    /\ UNCHANGED <<variant, readers, calls, args, in, file, pc, nadds,
                   minThreshold>>

\* prune() with any list of integers
Prune(v) == PruneWith(v, PruneInputs)

\* prune() with a list of distinct ids, as its callers build it
PruneDistinct(v) == PruneWith(v, DistinctIdLists)

Save(v) ==
    /\ Ready /\ variant = v /\ pc \in {"api", "built"}
    /\ LET r == SaveOp(v, Dict)
       IN  /\ fault' = r.fault
           /\ file' = r.bytes
    /\ op' = [name |-> "save", arg |-> <<>>, out |-> <<>>]
    /\ UNCHANGED <<variant, readers, calls, dvars, args, in, pc, nadds,
                   minThreshold>>

Load(v) ==
    /\ fault = "none" /\ file # <<>> /\ variant = v
    /\ Apply(LoadOp(v, Dict, file))
    /\ file' = <<>>
    /\ op' = [name |-> "load", arg |-> <<>>, out |-> <<>>]
    /\ UNCHANGED <<variant, readers, calls, args, in, pc, nadds, minThreshold>>

ApiW == Add("words") \/ Threshold("words") \/ Prune("words")
           \/ Save("words") \/ Load("words")
ApiDistinctW == Add("words") \/ Threshold("words") \/ PruneDistinct("words")
                   \/ Save("words") \/ Load("words")
ApiL == Add("labels") \/ Threshold("labels") \/ Prune("labels")
           \/ Save("labels") \/ Load("labels")

\* the words-only dictionary, used directly, prune() given distinct ids
SpecW == InitApi("words") /\ [][ApiDistinctW]_vars

ApiDistinctL == Add("labels") \/ Threshold("labels") \/ PruneDistinct("labels")
                   \/ Save("labels") \/ Load("labels")

\* the label-aware dictionary, used directly, prune() given distinct ids
SpecL == InitApi("labels") /\ [][ApiDistinctL]_vars

\* both dictionaries, used directly, prune() given any list
Init == InitApi("words") \/ InitApi("labels")
Next == ApiW \/ ApiL
Spec == Init /\ [][Next]_vars

(***************************************************************************)
(* Dictionary::discard and Dictionary::getLine.  uniform(rng) is drawn by   *)
(* the caller's random source: rnd[n] says whether the draw made for the   *)
(* n-th counted token of the call exceeds pdiscard_[wid].                  *)
(***************************************************************************)
Draws == [1..(MAX_LINE_SIZE + 1) -> BOOLEAN]

\* discard(id, rand): "ok", or the fault of a call it is not defined for
\* (the assertions on id, the read of pdiscard_[id]).
DiscardFault(d, id, model) ==
    IF id < 0 \/ id >= d.nwords_ THEN "assert"
    ELSE IF model # "sup" /\ id >= Len(d.pdiscard_) THEN "ub"
    ELSE "none"

discard(d, id, model, exceeds) == IF model = "sup" THEN FALSE ELSE exceeds

\* The result of a getLine call: the stream afterwards, the value returned,
\* the ids appended to words and to labels, and the number of tokens
\* readWord handed to the call.
LineResult(s, ntokens, words, labels, raw, flt) ==
    [in |-> s, ret |-> ntokens, words |-> words, labels |-> labels,
     raw |-> raw, fault |-> flt]

\* The loop of getLine(in, words, rng), src/src/dictionary.cc:186-196 (v =
\* "words") and src/unnamed/part_000:210-220 (v = "labels").
RECURSIVE LineLoop(_, _, _, _, _, _, _, _)
LineLoop(v, d, model, rnd, s, ntokens, words, raw) ==
    LET r   == readWord(s)
        h   == find(d.word2int_, d.words_, r.word)
        wid == d.word2int_[h]
        n   == ntokens + 1
        isWord == v = "words" \/ d.words_[wid + 1].type = TypeWord
        flt == IF v = "labels" /\ wid >= d.size_ THEN "assert"
               ELSE IF ~isWord THEN "none"
               ELSE DiscardFault(d, wid, model)
        ws2 == IF isWord /\ ~discard(d, wid, model, rnd[n])
               THEN Append(words, wid) ELSE words
    IN  IF ~r.ok THEN LineResult(r.in, ntokens, words, <<>>, raw, "none")
        ELSE IF h = HANG
        THEN LineResult(r.in, ntokens, words, <<>>, raw + 1, "hang")
        ELSE IF h = OOB
        THEN LineResult(r.in, ntokens, words, <<>>, raw + 1, "ub")
        ELSE IF wid < 0
        THEN LineLoop(v, d, model, rnd, r.in, ntokens, words, raw + 1)
        ELSE IF flt # "none"
        THEN LineResult(r.in, n, words, <<>>, raw + 1, flt)
        ELSE IF n > MAX_LINE_SIZE \/ r.word = EOS
        THEN LineResult(r.in, n, ws2, <<>>, raw + 1, "none")
        ELSE LineLoop(v, d, model, rnd, r.in, n, ws2, raw + 1)

\* getLine(in, words, rng)
getLine(v, d, model, rnd, s) ==
    LineLoop(v, d, model, rnd, reset(s), 0, <<>>, 0)

\* The loop of getLine(in, words, labels, rng), src/unnamed/part_000:234-246.
RECURSIVE LabelLineLoop(_, _, _, _, _, _)
LabelLineLoop(d, s, ntokens, words, labels, raw) ==
    LET r   == readWord(s)
        h   == findH(d.word2int_, d.words_, r.word, hash(r.word))
        wid == d.word2int_[h]
        ty  == IF wid < 0 THEN getTypeOf(r.word) ELSE d.words_[wid + 1].type
        n   == ntokens + 1
        ws2 == IF ty = TypeWord THEN Append(words, wid) ELSE words
        ls2 == IF ty = TypeLabel /\ wid >= 0
               THEN Append(labels, wid - d.nwords_) ELSE labels
    IN  IF ~r.ok THEN LineResult(r.in, ntokens, words, labels, raw, "none")
        ELSE IF h = HANG
        THEN LineResult(r.in, ntokens, words, labels, raw + 1, "hang")
        ELSE IF h = OOB
        THEN LineResult(r.in, ntokens, words, labels, raw + 1, "ub")
        ELSE IF wid >= d.size_
        THEN LineResult(r.in, ntokens, words, labels, raw + 1, "assert")
        ELSE IF r.word = EOS
        THEN LineResult(r.in, n, ws2, ls2, raw + 1, "none")
        ELSE LabelLineLoop(d, r.in, n, ws2, ls2, raw + 1)

\* getLine(in, words, labels, rng)
getLineLabels(d, s) == LabelLineLoop(d, reset(s), 0, <<>>, <<>>, 0)

(***************************************************************************)
(* Corpora and options of the runs that build the dictionary from a file.  *)
(***************************************************************************)
SP == <<32>>
NL == <<10>>
\* "a a a b b c </s> a b"
ScenarioCorpus == WordA \o SP \o WordA \o SP \o WordA \o SP \o WordB \o SP \o
                  WordB \o SP \o WordC \o SP \o EOS \o SP \o WordA \o SP \o
                  WordB
\* "a a b b c c _x _x d d\n\n": more distinct tokens than three quarters of
\* the slots of the hash index
CrowdedCorpus == WordA \o SP \o WordA \o SP \o WordB \o SP \o WordB \o SP \o
                 WordC \o SP \o WordC \o SP \o LabelX \o SP \o LabelX \o SP \o
                 WordD \o SP \o WordD \o NL \o NL
Corpora == {
    ScenarioCorpus,
    \* "a b\na\n"
    WordA \o SP \o WordB \o NL \o WordA \o NL,
    \* "b\na a"
    WordB \o NL \o WordA \o SP \o WordA,
    \* "_x a\n_x a b\n"
    LabelX \o SP \o WordA \o NL \o LabelX \o SP \o WordA \o SP \o WordB \o NL,
    \* ""
    <<>>,
    CrowdedCorpus }

\* args_->model: supervised, or one of the unsupervised models
Models == {"sg", "sup"}

\* A fresh dictionary about to run readFromFile on a corpus, its options
\* naming a model of the set models.
InitFile(v, models) ==
    /\ variant = v
    /\ \E sz \in UninitInt32 :
          /\ (v = "words" => sz = 0)
          /\ words_ = Fresh(v, sz).words_
          /\ word2int_ = Fresh(v, sz).word2int_
          /\ size_ = Fresh(v, sz).size_
          /\ nwords_ = Fresh(v, sz).nwords_
          /\ nlabels_ = Fresh(v, sz).nlabels_
          /\ ntokens_ = Fresh(v, sz).ntokens_
          /\ pruneidx_size_ = Fresh(v, sz).pruneidx_size_
          /\ pruneidx_ = Fresh(v, sz).pruneidx_
          /\ pdiscard_ = Fresh(v, sz).pdiscard_
    /\ args \in [minCount : 1..MaxThreshold, minCountLabel : {0, 1},
                 model : models]
    /\ (v = "words" => args.minCountLabel = 0)
    /\ \E buf \in Corpora : in = [buf |-> buf, pos |-> 0, eof |-> FALSE]
    /\ file = <<>>
    /\ pc = "reading"
    /\ fault = "none"
    /\ op = [name |-> "new", arg |-> <<>>, out |-> <<>>]
    /\ nadds = 0
    /\ calls = 0
    /\ readers = NoReaders
    /\ minThreshold = 1

(***************************************************************************)
(* Dictionary::readFromFile, one step per turn of its loop.                *)
(***************************************************************************)
\* OverLoad with the test made against the whole table: no incremental
\* threshold before every slot is taken.
OverLoad_FullTable(v, d) == Size(v, d) > MAX_VOCAB_SIZE

\* nwords_ > 0.75 * MAX_VOCAB_SIZE  (size_ in the label-aware variant)
OverLoad(v, d) == 4 * Size(v, d) > 3 * MAX_VOCAB_SIZE

\* NextCutoff without the increment: every pass applies the cutoff 1.
NextCutoff_NoIncrement(mt) == mt

\* minThreshold++
NextCutoff(mt) == mt + 1

\* readWord returned a token: add it, and threshold when over the load.
ReadStep(v) ==
    /\ Ready /\ variant = v /\ pc = "reading"
    /\ LET r == readWord(in)
           a == AddOp(v, Dict, r.word)
       IN  /\ r.ok
           /\ in' = r.in
           /\ IF a.fault = "none" /\ OverLoad(v, a.d)
              THEN /\ minThreshold' = NextCutoff(minThreshold)
                   /\ \E sorted \in Sorted(v, a.d.words_) :
                         Apply(ThresholdOp(v, a.d, sorted,
                                           NextCutoff(minThreshold),
                                           NextCutoff(minThreshold)))
              ELSE /\ minThreshold' = minThreshold
                   /\ Apply(a)
           /\ op' = [name |-> "readStep", arg |-> r.word, out |-> <<>>]
    /\ nadds' = nadds + 1
    /\ UNCHANGED <<variant, readers, calls, args, file, pc>>

\* The empty-vocabulary test left out: readFromFile returns whatever is
\* left.
EmptyVocabulary_NotTested(v, d) == FALSE

\* if (nwords_ == 0)  (size_ in the label-aware variant)
EmptyVocabulary(v, d) == Size(v, d) = 0

\* readWord returned false: the final threshold, the discard table, and the
\* exit when nothing is left.
ReadFinish(v) ==
    /\ Ready /\ variant = v /\ pc = "reading"
    /\ LET r == readWord(in)
       IN  /\ ~r.ok
           /\ in' = r.in
           /\ \E sorted \in Sorted(v, words_) :
                 LET t == ThresholdOp(v, Dict, sorted, args.minCount,
                                      args.minCountLabel)
                     p == InitTableDiscardOp(v, t.d)
                 IN  IF t.fault # "none" THEN Apply(t) /\ pc' = pc
                     ELSE IF p.fault # "none" THEN Apply(p) /\ pc' = pc
                     ELSE /\ SetDict(p.d)
                          /\ IF EmptyVocabulary(v, p.d)
                             THEN fault' = "exit" /\ pc' = pc
                             ELSE fault' = "none" /\ pc' = "built"
    /\ op' = [name |-> "readFromFile", arg |-> <<>>, out |-> <<>>]
    /\ UNCHANGED <<variant, readers, calls, args, file, nadds, minThreshold>>

(***************************************************************************)
(* getLine called on the corpus stream of a built dictionary.              *)
(***************************************************************************)
LineDone(name, r) ==
    /\ in' = r.in
    /\ fault' = r.fault
    /\ op' = [name |-> name, arg |-> [start |-> reset(in).pos, eof |-> in.eof],
              out |-> [ret |-> r.ret, raw |-> r.raw, words |-> r.words,
                       labels |-> r.labels]]
    /\ calls' = 1 - calls
    /\ UNCHANGED <<variant, readers, dvars, args, file, pc, nadds,
                   minThreshold>>

\* getLine(in, words, rng) of either variant
GetLine(v) ==
    /\ Ready /\ variant = v /\ pc = "built"
    /\ \E rnd \in Draws :
          LineDone("getLine", getLine(v, Dict, args.model, rnd, in))

\* getLine(in, words, labels, rng) of the label-aware variant
GetLineLabels ==
    /\ Ready /\ variant = "labels" /\ pc = "built"
    /\ LineDone("getLineLabels", getLineLabels(Dict, in))

FileW == ReadStep("words") \/ ReadFinish("words") \/ Prune("words")
            \/ Save("words") \/ Load("words")
FileL == ReadStep("labels") \/ ReadFinish("labels") \/ Prune("labels")
            \/ Save("labels") \/ Load("labels")

\* both dictionaries, built by readFromFile and then pruned, saved and
\* loaded
SpecFile == (InitFile("words", {"sg"}) \/ InitFile("labels", {"sg"}))
                /\ [][FileW \/ FileL]_vars

LinesW == ReadStep("words") \/ ReadFinish("words") \/ GetLine("words")

\* the words-only dictionary, built by readFromFile and then read line by
\* line from the corpus stream
SpecLinesW == InitFile("words", Models) /\ [][LinesW]_vars

\* How a call can leave defined behaviour, "none" when it does not.
Faults == {"none", "ub", "hang", "assert", "throw", "exit"}

\* readFromFile's loop turns once more: it adds the token it read, or it
\* leaves the loop at end-of-stream and comes to its end.
LoopTurns == /\ Ready /\ pc = "reading"
             /\ IF readWord(in).ok
                THEN nadds' = nadds + 1 /\ pc' = pc
                ELSE nadds' = nadds /\ pc' \in {"reading", "built"}
             /\ fault' \in Faults

\* the caller of a built dictionary calls getLine once more
CallsAgain == Ready /\ pc = "built" /\ calls' = 1 - calls

\* the same, readFromFile running to its end and the caller calling getLine
\* again and again
SpecLive == /\ InitFile("words", Models) /\ [][LinesW]_vars
            /\ WF_<<nadds, pc, fault>>(LoopTurns)
            /\ WF_calls(CallsAgain)
LinesL == ReadStep("labels") \/ ReadFinish("labels") \/ GetLine("labels")
             \/ GetLineLabels

\* both dictionaries, built by readFromFile and then read line by line
\* from the corpus stream
SpecLines == (InitFile("words", Models) \/ InitFile("labels", Models))
                 /\ [][LinesW \/ LinesL]_vars

(***************************************************************************)
(* Concurrent readers of a built dictionary.  Every reader owns its stream *)
(* on the corpus and its random source; its getLine call is taken one turn *)
(* of the loop at a time, so that the calls of the readers interleave.     *)
(***************************************************************************)
Readers == {1, 2}

\* uniform(rng) > pdiscard_[id] at the tokens of a call, for the random
\* sources the readers own: never, and at every second token.
ReaderDraws == {[i \in 1..(MAX_LINE_SIZE + 1) |-> FALSE],
                [i \in 1..(MAX_LINE_SIZE + 1) |-> i % 2 = 0]}

\* the corpus the readers read: "a b\na\n"
ReaderCorpora == {WordA \o SP \o WordB \o NL \o WordA \o NL}

\* A reader before its first call, its stream opened on the corpus buf.
NewReader(buf) ==
    [pc |-> "idle", in |-> [buf |-> buf, pos |-> 0, eof |-> FALSE],
     s0 |-> [buf |-> buf, pos |-> 0, eof |-> FALSE],
     rnd |-> [i \in 1..(MAX_LINE_SIZE + 1) |-> FALSE],
     ntokens |-> 0, words |-> <<>>, raw |-> 0, fault |-> "none",
     mixed |-> FALSE]

\* The stream a reader of the wrong kind would use: the one of reader 1.
OwnStream_Shared(rs, r) == rs[1].in

\* std::istream& in: the stream the caller owns and hands to getLine
OwnStream(rs, r) == rs[r].in

\* One turn of the loop of getLine(in, words, rng), src/src/dictionary.cc
\* lines 186-196: [done, in, ntokens, words, raw, fault].
LineTurn(d, model, rnd, s, ntokens, words, raw) ==
    LET r   == readWord(s)
        h   == find(d.word2int_, d.words_, r.word)
        wid == d.word2int_[h]
        n   == ntokens + 1
        flt == DiscardFault(d, wid, model)
        ws2 == IF ~discard(d, wid, model, rnd[n])
               THEN Append(words, wid) ELSE words
        end(dn, nt, ws, rw, f) ==
            [done |-> dn, in |-> r.in, ntokens |-> nt, words |-> ws,
             raw |-> rw, fault |-> f]
    IN  IF ~r.ok THEN end(TRUE, ntokens, words, raw, "none")
        ELSE IF h = HANG THEN end(TRUE, ntokens, words, raw + 1, "hang")
        ELSE IF h = OOB THEN end(TRUE, ntokens, words, raw + 1, "ub")
        ELSE IF wid < 0 THEN end(FALSE, ntokens, words, raw + 1, "none")
        ELSE IF flt # "none" THEN end(TRUE, n, words, raw + 1, flt)
        ELSE end(n > MAX_LINE_SIZE \/ r.word = EOS, n, ws2, raw + 1, "none")

\* The threads that read the dictionary are started once it is built, on
\* a corpus of the readers.
Spawn ==
    /\ Ready /\ variant = "words" /\ pc = "built"
    /\ in.buf \in ReaderCorpora
    /\ pc' = "serving"
    /\ readers' = [r \in Readers |-> NewReader(in.buf)]
    /\ op' = [name |-> "spawn", arg |-> <<>>, out |-> <<>>]
    /\ UNCHANGED <<variant, dvars, args, in, file, fault, nadds, calls,
                   minThreshold>>

\* Reader r goes from its state to st, with the answer out to its query.
ReaderGoes(r, st, out) ==
    /\ readers' = [readers EXCEPT ![r] = st]
    /\ op' = [name |-> "reader", arg |-> r, out |-> out]
    /\ UNCHANGED <<variant, dvars, args, in, file, pc, fault, nadds, calls,
                   minThreshold>>

\* Reader r enters getLine: reset(in); words.clear();
ReaderBegins(r) ==
    /\ Ready /\ pc = "serving" /\ readers[r].pc # "loop"
    /\ readers[r].fault = "none"
    /\ \E rnd \in ReaderDraws :
          ReaderGoes(r, [readers[r] EXCEPT
                            !.pc = "loop", !.s0 = readers[r].in,
                            !.in = reset(OwnStream(readers, r)), !.rnd = rnd,
                            !.ntokens = 0, !.words = <<>>, !.raw = 0,
                            !.mixed = FALSE], <<>>)

\* Reader r makes one turn of the loop of its getLine call.
ReaderTurns(r) ==
    /\ Ready /\ pc = "serving" /\ readers[r].pc = "loop"
    /\ LET me == readers[r]
           t  == LineTurn(Dict, args.model, me.rnd, OwnStream(readers, r),
                          me.ntokens, me.words, me.raw)
       IN  ReaderGoes(r, [me EXCEPT
                             !.pc = IF t.done THEN "done" ELSE "loop",
                             !.in = t.in, !.ntokens = t.ntokens,
                             !.words = t.words, !.raw = t.raw,
                             !.fault = t.fault,
                             !.mixed = @ \/ \E o \in Readers \ {r} :
                                                readers[o].pc = "loop"],
                      <<>>)

\* Reader r looks a word up: getId, then getWord and discard on its id.
ReaderAsks(r) ==
    /\ Ready /\ pc = "serving" /\ readers[r].fault = "none"
    /\ \E w \in {WordA, WordD}, exceeds \in BOOLEAN :
          LET id == getId(Dict, w)
          IN  ReaderGoes(r, readers[r],
                  IF id < 0 \/ DiscardFault(Dict, id, args.model) # "none"
                  THEN <<w, id>>
                  ELSE <<w, id, getWord(Dict, id),
                         discard(Dict, id, args.model, exceeds)>>)

\* Reader r saves the dictionary to a stream of its own.
ReaderSaves(r) ==
    /\ Ready /\ pc = "serving" /\ readers[r].fault = "none"
    /\ ReaderGoes(r, readers[r], SaveOp("words", Dict).bytes)

Reading == \E r \in Readers :
               ReaderBegins(r) \/ ReaderTurns(r) \/ ReaderAsks(r)
                   \/ ReaderSaves(r)

\* the words-only dictionary, built by readFromFile and then read by the
\* readers concurrently
SpecReaders == InitFile("words", {"sg"})
                   /\ [][ReadStep("words") \/ ReadFinish("words") \/ Spawn
                           \/ Reading]_vars

\* C20: after a getLine call of either variant, with or without labels, on
\* any line of the corpus, every id the call appended to words is the id of
\* a word entry, in [0, nwords_), and every id it appended to labels lies
\* in [0, nlabels_).
C20_IdsInRange ==
    (op.name \in {"getLine", "getLineLabels"} /\ fault = "none") =>
        /\ \A i \in 1..Len(op.out.words) :
              /\ op.out.words[i] >= 0 /\ op.out.words[i] < nwords_
              /\ op.out.words[i] < Len(words_)
              /\ variant = "labels" =>
                    words_[op.out.words[i] + 1].type = TypeWord
        /\ \A i \in 1..Len(op.out.labels) :
              op.out.labels[i] >= 0 /\ op.out.labels[i] < nlabels_

\* The call of reader r that has just returned, made by r alone.
Alone(r) == getLine("words", Dict, args.model, readers'[r].rnd,
                    readers'[r].s0)

\* C19: a read operation of a reader (getId, getWord, discard, getLine,
\* save) leaves every field of the dictionary as it was, and under every
\* interleaving of the readers, each on its own stream and random source,
\* the getLine call a reader finishes returns the count, the ids and the
\* stream position of the same call made alone, and a query the answer
\* computed on the dictionary as readFromFile left it.
C19_ReadersIndependent ==
    [][op'.name = "reader" =>
          /\ UNCHANGED dvars
          /\ \A r \in Readers : readers'[r].fault = "none"
          /\ \A r \in {op'.arg} :
                readers[r].pc = "loop" /\ readers'[r].pc = "done" =>
                    \E alone \in {Alone(r)} :
                        /\ readers'[r].ntokens = alone.ret
                        /\ readers'[r].words = alone.words
                        /\ readers'[r].raw = alone.raw
                        /\ readers'[r].in = alone.in
                        /\ alone.fault = "none"
          /\ Len(op'.out) = 4 => /\ op'.out[2] = getId(Dict, op'.out[1])
                                 /\ op'.out[3] = op'.out[1]
                                 /\ op'.out[4] \in BOOLEAN]_vars

\* Both readers have finished a getLine call whose turns were interleaved
\* with the turns of the other, and got ids.
C19_Witness ==
    /\ pc = "serving"
    /\ \A r \in Readers : /\ readers[r].pc = "done" /\ readers[r].mixed
                          /\ readers[r].words # <<>>
    /\ readers[1].in.pos # readers[2].in.pos

(***************************************************************************)
(* readWord called again and again on a byte stream.                       *)
(***************************************************************************)
MaxStreamLen == 3

\* the separators, two letters and the byte 0xFF
StreamBytes == Separators \cup {97, 98, 255}
Streams == SeqsUpTo(StreamBytes, MaxStreamLen)

\* A dictionary whose caller is about to read the tokens of a stream.
InitRead ==
    /\ variant = "words"
    /\ words_ = Fresh("words", 0).words_
    /\ word2int_ = Fresh("words", 0).word2int_
    /\ size_ = Fresh("words", 0).size_
    /\ nwords_ = Fresh("words", 0).nwords_
    /\ nlabels_ = Fresh("words", 0).nlabels_
    /\ ntokens_ = Fresh("words", 0).ntokens_
    /\ pruneidx_size_ = Fresh("words", 0).pruneidx_size_
    /\ pruneidx_ = Fresh("words", 0).pruneidx_
    /\ pdiscard_ = Fresh("words", 0).pdiscard_
    /\ args = NoArgs
    /\ \E buf \in Streams : in = [buf |-> buf, pos |-> 0, eof |-> FALSE]
    /\ file = <<>>
    /\ pc = "tokens"
    /\ fault = "none"
    /\ op = [name |-> "new", arg |-> <<>>, out |-> <<>>]
    /\ nadds = 0
    /\ calls = 0
    /\ readers = NoReaders
    /\ minThreshold = 1

\* readWord(in, word)
ReadWord ==
    /\ Ready /\ pc = "tokens"
    /\ LET r == readWord(in)
       IN  /\ in' = r.in
           /\ op' = [name |-> "readWord", arg |-> in.pos,
                     out |-> [ok |-> r.ok, word |-> r.word]]
    /\ UNCHANGED <<variant, readers, dvars, calls, args, file, pc, fault, nadds,
                   minThreshold>>

\* a caller reading a byte stream token by token
SpecRead == InitRead /\ [][ReadWord]_vars

(***************************************************************************)
(* Properties of the direct interface.                                     *)
(***************************************************************************)
\* The dictionary object after the step.
DictP == [words_ |-> words_', word2int_ |-> word2int_', size_ |-> size_',
          nwords_ |-> nwords_', nlabels_ |-> nlabels_', ntokens_ |-> ntokens_',
          pruneidx_size_ |-> pruneidx_size_', pruneidx_ |-> pruneidx_',
          pdiscard_ |-> pdiscard_']

\* The ids the variant takes to be in use: [0, size).
Ids(v, d) == 0..(Size(v, d) - 1)

\* C1 (hash index consistency): in every state reached by add, threshold,
\* prune and load, the entry at every id i in [0, size) has a word that getId
\* resolves to i and getWord(i) returns.
C1_HashIndexConsistent ==
    fault = "none" =>
        \A i \in Ids(variant, Dict) :
            i < Len(words_) =>
                /\ getId(Dict, words_[i + 1].word) = i
                /\ getWord(Dict, i) = words_[i + 1].word

\* The ids of idx inside [0, nwords_), ascending and without repetition.
RECURSIVE Ascending(_)
Ascending(S) == IF S = {} THEN <<>>
                ELSE LET m == CHOOSE x \in S : \A y \in S : x <= y
                     IN  <<m>> \o Ascending(S \ {m})

KeptIds(d, idx) ==
    Ascending({idx[k] : k \in 1..Len(idx)} \cap (0..(d.nwords_ - 1)))

OfType(ws, ty) == SelectSeq(ws, LAMBDA e : e.type = ty)

Live(v, d) == SubSeq(d.words_, 1, Size(v, d))

\* What prune(idx) is to establish, from the dictionary d before the call to
\* the dictionary e after it.
PrunePost(v, d, idx, e) ==
    LET kept == KeptIds(d, idx)
    IN  /\ Size(v, e) <= Len(e.words_)
        /\ e.nwords_ = Len(kept)
        /\ OfType(Live(v, e), TypeWord) =
               [n \in 1..Len(kept) |-> d.words_[kept[n] + 1]]
        /\ OfType(Live(v, e), TypeLabel) = OfType(Live(v, d), TypeLabel)
        /\ \A i, j \in 1..Size(v, e) :
               i # j => getId(e, e.words_[i].word) # getId(e, e.words_[j].word)

\* C2 (prune correctness): after prune(ids), for every list ids, the word
\* entries that survive are those whose ids are the sorted intersection of
\* ids with [0, nwords_), in their order, nwords_ is their number, all label
\* entries survive and no two survivors resolve to the same id.
C2_PruneCorrect ==
    [][(op'.name = "prune" /\ fault' = "none") =>
           \A idx \in PruneInputs :
               DictP = PruneOp(variant, Dict, idx).d =>
                   PrunePost(variant, Dict, idx, DictP)]_vars

\* the cutoff threshold(t, tl) applies to entry e
Cutoff(e, t, tl) == IF e.type = TypeLabel THEN tl ELSE t

Occurrences(ws, e) == Cardinality({i \in 1..Len(ws) : ws[i] = e})

\* C3 (threshold): after threshold(t, tl) every surviving word entry has
\* count >= t and every surviving label entry count >= tl (in the
\* words-only variant every entry is a word entry); every entry of the
\* store at or above its cutoff is still there, with its count, and nothing
\* else is.
C3_ThresholdCutoffs ==
    [][(op'.name = "threshold" /\ fault' = "none") =>
           LET t  == op'.arg[1]
               tl == IF variant = "labels" THEN op'.arg[2] ELSE op'.arg[1]
           IN  /\ \A i \in 1..Len(words_') :
                      words_'[i].count >= Cutoff(words_'[i], t, tl)
               /\ \A i \in 1..Len(words_) :
                      words_[i].count >= Cutoff(words_[i], t, tl) =>
                          Occurrences(words_', words_[i]) =
                              Occurrences(words_, words_[i])
               /\ \A i \in 1..Len(words_') :
                      Occurrences(words_, words_'[i]) > 0]_vars

\* C3 witness: a threshold(2, .) has removed an entry counted once and kept
\* one counted twice.
C3_Witness ==
    /\ op.name = "threshold" /\ op.arg[1] = 2 /\ fault = "none"
    /\ nadds = 3 /\ Len(words_) = 1 /\ words_[1].count = 2

\* C4 (size): size_ (nwords_ in the words-only variant) is the number of
\* entries held in words_.
C4_SizeIsStoreSize ==
    fault = "none" => Size(variant, Dict) = Len(words_)

\* C5 (distinct words): no two entries of the vocabulary, ids [0, size),
\* have the same word.
C5_DistinctWords ==
    fault = "none" =>
        \A i, j \in 1..Len(Live(variant, Dict)) :
            i # j => words_[i].word # words_[j].word

RECURSIVE SumCounts(_)
SumCounts(ws) == IF ws = <<>> THEN 0 ELSE ws[1].count + SumCounts(Tail(ws))

\* C7 (lifetime counter): ntokens_ is the number of add calls made since
\* construction, whatever threshold and prune removed since.
C7_TokensAreAddCalls ==
    fault = "none" => ntokens_ = nadds

\* C7 witness: entries have been removed, and ntokens_ exceeds the counts
\* that are left.
C7_Witness ==
    /\ fault = "none" /\ op.name \in {"threshold", "prune"}
    /\ ntokens_ = 3 /\ SumCounts(words_) = 1

\* C11 (words before labels): in the label-aware dictionary every id in
\* [0, nwords_) is the id of a word entry and every id in
\* [nwords_, nwords_ + nlabels_) is the id of a label entry.
C11_WordsBeforeLabels ==
    (variant = "labels" /\ fault = "none") =>
        /\ \A i \in 0..(nwords_ - 1) :
               i < Len(words_) /\ words_[i + 1].type = TypeWord
        /\ \A i \in nwords_..(nwords_ + nlabels_ - 1) :
               i < Len(words_) /\ words_[i + 1].type = TypeLabel

\* The words looked up: those that are added, and two that never are.
Lookups == {WordA, WordB, WordC, LabelX, EOS, <<100>>}

\* Entry number id (from 0) is in use and holds the word w.
HoldsWord(v, d, id, w) ==
    /\ 0 <= id /\ id < Size(v, d) /\ id < Len(d.words_)
    /\ d.words_[id + 1].word = w

\* C12 (lookup safety): getId(w) returns, and what it returns is -1 or the
\* id of an entry in use whose word is w; so it is -1 for every word that no
\* entry in use holds, the words removed by threshold or prune included.
C12_GetIdSafe ==
    fault = "none" =>
        \A w \in Lookups :
            getId(Dict, w) = -1 \/ HoldsWord(variant, Dict, getId(Dict, w), w)

(***************************************************************************)
(* Properties of the dictionaries built from a file.                       *)
(***************************************************************************)
\* The tokens of the bytes of buf from offset p (from 0) on: one per maximal
\* run of bytes that are no separators, and "</s>" for every newline.
RECURSIVE RunEnd(_, _)
RunEnd(buf, p) == IF p < Len(buf) /\ buf[p + 1] \notin Separators
                  THEN RunEnd(buf, p + 1) ELSE p

RECURSIVE Tokens(_, _)
Tokens(buf, p) ==
    IF p >= Len(buf) THEN <<>>
    ELSE IF buf[p + 1] = NewLine THEN <<EOS>> \o Tokens(buf, p + 1)
    ELSE IF buf[p + 1] \in Separators THEN Tokens(buf, p + 1)
    ELSE <<SubSeq(buf, p + 1, RunEnd(buf, p))>> \o Tokens(buf, RunEnd(buf, p))

\* C14 (tokenisation): every readWord call returns the first of the tokens
\* that the stream holds from its position on and leaves the stream where
\* the rest of them follow; it returns false when there is none.  From
\* offset 0, successive calls so yield the tokens of the stream in order.
C14_TokensInOrder ==
    [][op'.name = "readWord" =>
           LET T == Tokens(in.buf, in.pos)
           IN  IF T = <<>> THEN ~op'.out.ok
               ELSE /\ op'.out.ok
                    /\ op'.out.word = Head(T)
                    /\ Tokens(in'.buf, in'.pos) = Tail(T)]_vars

\* C15 (end of stream): a readWord call returns false exactly when every
\* byte left in the stream is a separator other than newline, so that no
\* byte was accumulated and the stream is exhausted.
C15_FalseOnlyAtEnd ==
    [][op'.name = "readWord" =>
           (~op'.out.ok <=>
                \A k \in (in.pos + 1)..Len(in.buf) :
                    in.buf[k] \in Separators \ {NewLine})]_vars

\* The number of slots of the hash index that hold an id.
Occupied(w2i) == Cardinality({h \in Slots : w2i[h] # -1})

\* C16 (load factor): when readFromFile has processed a token (add and the
\* threshold it triggered), find has returned, the number of entries is at
\* most 0.75 * MAX_VOCAB_SIZE and the hash index has an empty slot.
C16_LoadBounded ==
    [][op'.name = "readStep" =>
           /\ fault' # "hang"
           /\ fault' = "none" =>
                  /\ 4 * Size(variant, DictP) <= 3 * MAX_VOCAB_SIZE
                  /\ 4 * Occupied(word2int_') <= 3 * MAX_VOCAB_SIZE
                  /\ Occupied(word2int_') < MAX_VOCAB_SIZE]_vars

\* C16 witness: a token took the store over the load and the threshold it
\* triggered has brought it back, entries being left.
C16_Witness ==
    /\ op.name = "readStep" /\ fault = "none" /\ minThreshold = 2
    /\ Size(variant, Dict) > 0 /\ Len(words_) = Size(variant, Dict)

\* The dictionary readFromFile's add leaves for the token of the step.
Added == AddOp(variant, Dict, op'.arg)

\* The step is a turn of readFromFile's loop in which the incremental
\* threshold runs.
Triggered ==
    /\ op'.name = "readStep" /\ Added.fault = "none"
    /\ 4 * Size(variant, Added.d) > 3 * MAX_VOCAB_SIZE

\* The store after the step is the store after add without the entries
\* whose count is below c, and with all the others.
AppliedCutoff(c) ==
    /\ \A i \in 1..Len(words_') : words_'[i].count >= c
    /\ \A i \in 1..Len(Added.d.words_) :
           Added.d.words_[i].count >= c =>
               Occurrences(words_', Added.d.words_[i]) =
                   Occurrences(Added.d.words_, Added.d.words_[i])
    /\ \A i \in 1..Len(words_') : Occurrences(Added.d.words_, words_'[i]) > 0

\* minThreshold is 1 when readFromFile starts and goes up by one in each
\* turn in which the incremental threshold runs, and in no other.
CountsTriggers ==
    /\ minThreshold = 1
    /\ [][/\ Triggered => minThreshold' = minThreshold + 1
          /\ ~Triggered => minThreshold' = minThreshold]_vars

\* C17 as claimed: the k-th incremental threshold applies the cutoff k (1
\* for the first), whatever minCount and minCountLabel are.
C17_CutoffAsClaimed ==
    /\ CountsTriggers
    /\ [][(Triggered /\ fault' = "none") => AppliedCutoff(minThreshold)]_vars

\* C17 as amended: the k-th incremental threshold applies the cutoff k + 1
\* (2 for the first), whatever minCount and minCountLabel are.
C17_CutoffAmended ==
    /\ CountsTriggers
    /\ [][(Triggered /\ fault' = "none") =>
              AppliedCutoff(minThreshold + 1)]_vars

\* C17 witness: the incremental threshold has run twice.
C17_Witness ==
    op.name = "readStep" /\ fault = "none" /\ minThreshold = 3

\* Some entry of the store ws is at or above the cutoff of its type.
Survives(ws, t, tl) == \E i \in 1..Len(ws) : ws[i].count >= Cutoff(ws[i], t, tl)

\* C13 (empty vocabulary): readFromFile ends in the fatal empty-vocabulary
\* outcome when no entry is at or above its final cutoff, and returns
\* normally, with a vocabulary that is not empty, when some entry is.
C13_NeverEmpty ==
    [][op'.name = "readFromFile" =>
           IF Survives(words_, args.minCount, args.minCountLabel)
           THEN /\ fault' = "none" /\ pc' = "built"
                /\ Size(variant, DictP) > 0 /\ words_' # <<>>
           ELSE fault' = "exit" /\ pc' # "built"]_vars

\* C13 witness: tokens were read and none of their entries reached the
\* cutoff, so readFromFile ended in the empty-vocabulary outcome.
C13_Witness ==
    op.name = "readFromFile" /\ fault = "exit" /\ nadds > 0 /\ words_ = <<>>

Entry(w, n) == [word |-> w, count |-> n, type |-> TypeWord]

\* readFromFile has just returned from the stream "a a a b b c </s> a b"
\* with minCount = 2 (words-only dictionary).
ScenarioRead ==
    /\ variant = "words" /\ in.buf = ScenarioCorpus /\ args.minCount = 2
    /\ pc = "built" /\ op.name = "readFromFile"

\* C8 as claimed: the scenario leaves exactly a with count 3 and b with
\* count 2, in that order, c removed, and ntokens_ = 9.
C8_ScenarioAsClaimed ==
    ScenarioRead =>
        /\ Live(variant, Dict) = <<Entry(WordA, 3), Entry(WordB, 2)>>
        /\ getId(Dict, WordC) = -1
        /\ ntokens_ = 9

\* C8 as amended: the scenario leaves exactly a with count 4 and b with
\* count 3 (every occurrence in the stream is counted), in that order, c
\* removed, and ntokens_ = 9.
C8_ScenarioAmended ==
    /\ (fault = "exit" => ~(variant = "words" /\ in.buf = ScenarioCorpus
                             /\ args.minCount = 2))
    /\ ScenarioRead =>
           /\ words_ = <<Entry(WordA, 4), Entry(WordB, 3)>>
           /\ nwords_ = 2
           /\ getId(Dict, WordA) = 0 /\ getId(Dict, WordB) = 1
           /\ getId(Dict, WordC) = -1
           /\ ntokens_ = 9

C8_Witness == ScenarioRead /\ fault = "none"

\* C9 (getLine's return value): the value getLine returns is the number of
\* tokens it read from the stream in the call, the tokens that are not in
\* the vocabulary and the discarded ones included.
C9_ReturnsTokensRead ==
    (op.name \in {"getLine", "getLineLabels"} /\ fault = "none") =>
        op.out.ret = op.out.raw

\* C18 (line length): a getLine call of the words-only dictionary returns at
\* most MAX_LINE_SIZE and appends at most MAX_LINE_SIZE ids to words.
C18_LineBounded ==
    (variant = "words" /\ op.name = "getLine" /\ fault = "none") =>
        /\ op.out.ret <= MAX_LINE_SIZE
        /\ Len(op.out.words) <= MAX_LINE_SIZE

\* The offsets at which the lines of a corpus start.
LineStarts(buf) ==
    {k \in 0..(Len(buf) - 1) : k = 0 \/ buf[k] = NewLine}

\* The last call of getLine read the bytes from offset k on.
Covered(k) == /\ op.name = "getLine"
              /\ op.arg.start <= k /\ k < in.pos

\* C10 (circular iteration): a getLine call made with the stream at
\* end-of-stream starts reading at offset 0 and reads tokens again, and
\* once the dictionary is built every line of the corpus is read by a call
\* again and again.
C10_Circular ==
    /\ [][(op'.name = "getLine" /\ in.eof) =>
              /\ op'.arg.start = 0
              /\ op'.out.raw > 0
              /\ in'.pos > 0]_vars
    /\ \A buf \in Corpora : \A k \in LineStarts(buf) :
           []<>((pc = "built" /\ in.buf = buf) => Covered(k))

\* C10 witness: a call made at end-of-stream has read the first line again.
C10_Witness ==
    /\ op.name = "getLine" /\ op.arg.eof /\ op.arg.start = 0
    /\ op.out.raw > 0 /\ nadds > op.out.raw

\* C21: in every state in which discard may be called, that is once
\* readFromFile has built the dictionary, and after any load or prune that
\* follows, pdiscard_ has a value for every word id, and the value at id i
\* is the one computed from the count of the entry now stored at id i and
\* from ntokens_.
C21_TableCurrent ==
    (pc = "built" /\ fault = "none") =>
        /\ Len(pdiscard_) >= nwords_
        /\ \A i \in 1..nwords_ :
              /\ i <= Len(words_)
              /\ i <= Len(pdiscard_)
              /\ pdiscard_[i] = <<words_[i].count, ntokens_>>

====
